---- MODULE Spec2Model ----
(***************************************************************************)
(* The peer-to-peer node of KABOOMedia (src/core/p2p_network.py) and its   *)
(* NAT helper (src/core/nat_traversal.py) as a state machine.              *)
(*                                                                         *)
(* One P2PNode is modelled in full: its fields, the application thread     *)
(* calling its public methods, the accept-loop threads started by          *)
(* start_node and the connection workers started for every connection.     *)
(* The remote peers and the operating system are the environment.  Every   *)
(* step is one stretch of code between two points where CPython may switch *)
(* threads (a blocking system call, or the boundary of a statement that    *)
(* touches shared state).                                                  *)
(***************************************************************************)
EXTENDS Integers, Sequences, FiniteSets, TLC

(***************************************************************************)
(* Bounds of the model.                                                    *)
(***************************************************************************)
\* sockets created in one run (listening, outbound and accepted): of Spec
\* and of SpecReg
MaxSock == 3
MaxRegSock == 2
\* calls of send_message and broadcast_message by the application in one run
MaxSends == 1
\* frames written by remote peers in one run
MaxFrames == 2
\* sockets created in one run of SpecNat, calls of setup_port_forwarding in
\* it, and routers that answer the discovery
MaxNatSock == 2
\* connections made in one run of SpecDup
MaxDupConn == 2
\* connections accepted in one run of SpecInb
MaxInbConn == 2
MaxNatCalls == 2
MaxDevices == 2
\* symbols in a string given to the encoder
MaxStrLen == 2

\* the port of the node, and another one
Port == 9999
Ports == {Port, 8000}

None == "None"
\* message types and callbacks the application and the peers use;
\* the callback "hraise" raises when it is invoked, "h1" returns
Types == {"ping", "pong"}
Handlers == {"h1", "hraise"}
\* remote endpoints (ip, port) of inbound connections, as accept() returns
\* them, and the peer ids the application passes to connect_to_peer and
\* send_message
Addrs == {<<"h", 1>>, <<"h", 2>>}
CallerIds == {"p1", "h:1"}
\* the remote endpoint of the inbound connections of SpecReg and SpecWire
WireAddr == <<"h", 1>>
\* no endpoint: of a listening socket, and of a connection made by
\* connect_to_peer, whose remote endpoint the node never looks at
NoAddr == <<"", 0>>
\* (a peer id made of the remote IP alone)
IpOnly(a) == a[1]
\* line 97: peer_id = f"{address[0]}:{address[1]}"
InboundPeerId(a) == a[1] \o ":" \o ToString(a[2])
PeerIds == {InboundPeerId(a) : a \in Addrs} \cup CallerIds
\* the (type, data) pairs the application sends, and those a peer node sends
AppMsgs == {<<"ping", "1">>}
PeerMsgs == {<<"ping", "1">>, <<"pong", "2">>}

(***************************************************************************)
(* The wire.  A byte stream is a sequence of tokens <<kind, value>>; the   *)
(* delimiter '\n' is the token NL.  A JSON text is "{", members, "}" for   *)
(* an object, a single scalar token for a number, and anything else does   *)
(* not parse.  XFF is a byte that is not valid UTF-8; U1 and U2 are the    *)
(* first and the second byte of a character that takes two bytes.          *)
(***************************************************************************)
NL == <<"nl", "">>
LB == <<"{", "">>
RB == <<"}", "">>
NUM == <<"num", "7">>
XFF == <<"xff", "">>
U1 == <<"u1", "">>
U2 == <<"u2", "">>
Member(k, v) == <<k, v>>
MemberKeys == {"type", "timestamp", "data"}
IsMember(tok) == tok[1] \in MemberKeys

\* send_message: the message dict and json.dumps(message)
Message(t, d) == [type |-> t, timestamp |-> "now", data |-> d]
JsonDumps(m) ==
  <<LB, Member("type", m.type), Member("timestamp", m.timestamp),
    Member("data", m.data), RB>>
\* send_message: json.dumps(message) + '\n'
Encode(t, d) == JsonDumps(Message(t, d)) \o <<NL>>

\* json.loads(line): "error" is JSONDecodeError, "scalar" a value that is no
\* dict, "object" a dict given as the function key -> value (last one wins)
IsObjectText(line) ==
  /\ Len(line) >= 2
  /\ line[1] = LB
  /\ line[Len(line)] = RB
  /\ \A i \in 2..(Len(line) - 1) : IsMember(line[i])
ObjKeys(line) == {line[i][1] : i \in 2..(Len(line) - 1)}
ObjValue(line, k) ==
  LET last == CHOOSE i \in 2..(Len(line) - 1) :
                  /\ line[i][1] = k
                  /\ \A j \in (i + 1)..(Len(line) - 1) : line[j][1] # k
  IN  line[last][2]
JsonLoads(line) ==
  IF IsObjectText(line)
    THEN [kind |-> "object", keys |-> ObjKeys(line),
          val |-> [k \in MemberKeys |->
                     IF k \in ObjKeys(line) THEN ObjValue(line, k) ELSE None]]
  ELSE IF line = <<NUM>>
    THEN [kind |-> "scalar", keys |-> {}, val |-> [k \in MemberKeys |-> None]]
  ELSE [kind |-> "error", keys |-> {}, val |-> [k \in MemberKeys |-> None]]

\* bytes.decode(): raises UnicodeDecodeError on a byte that is not UTF-8,
\* and on a character of which the chunk holds only a part
DecodeFails(chunk) ==
  \E i \in 1..Len(chunk) :
    \/ chunk[i] = XFF
    \/ chunk[i] = U1 /\ (i = Len(chunk) \/ chunk[i + 1] # U2)
    \/ chunk[i] = U2 /\ (i = 1 \/ chunk[i - 1] # U1)

\* buffer.split('\n', 1) and the test '\n' in buffer
HasNL(buf) == \E i \in 1..Len(buf) : buf[i] = NL
\* (a split at the last delimiter, which the code does not do)
LastNL(buf) == CHOOSE i \in 1..Len(buf) : buf[i] = NL /\ \A j \in (i + 1)..Len(buf) : buf[j] # NL
FirstNL(buf) == CHOOSE i \in 1..Len(buf) : buf[i] = NL /\ \A j \in 1..(i - 1) : buf[j] # NL
LineOf(buf) == SubSeq(buf, 1, FirstNL(buf) - 1)
RestOf(buf) == SubSeq(buf, FirstNL(buf) + 1, Len(buf))

(***************************************************************************)
(* The codec in detail, for messages whose type and data are looked into.  *)
(* A Python value is <<"str", symbols>>, <<"int", digits>>, <<"float",     *)
(* digits>>, <<"list", items>>, <<"tuple", items>> or <<"dict", pairs>>,   *)
(* the pairs <<key, value>> in insertion order.  A JSON text is a sequence *)
(* of tokens: a number, the quote, a character of a string, the escape     *)
(* \n, brackets and braces (commas, colons and blanks are left out).  The  *)
(* line feed is the symbol LF in a string and the token NL on the wire.    *)
(***************************************************************************)
LF == "LF"
QUOTE == <<"q", "">>
LBK == <<"[", "">>
RBK == <<"]", "">>
Ch(c) == <<"ch", c>>
EscN == <<"esc", "n">>
PyStr(cs) == <<"str", cs>>
\* (a string written with its line feeds as they are)
RawLF(c) == IF c = LF THEN NL ELSE Ch(c)
\* json.dumps writes a line feed inside a string as the two characters \n
EscapeChar(c) == IF c = LF THEN EscN ELSE Ch(c)
StrText(cs) == <<QUOTE>> \o [i \in 1..Len(cs) |-> EscapeChar(cs[i])] \o <<QUOTE>>
\* json.dumps writes a dict key that is an int as the string of its digits
KeyText(k) == IF k[1] = "str" THEN StrText(k[2]) ELSE StrText(<<k[2]>>)
RECURSIVE Dumps(_), DumpsItems(_), DumpsPairs(_)
\* json.dumps(v): a tuple is written as a list is
Dumps(v) ==
  CASE v[1] = "str" -> StrText(v[2])
    [] v[1] \in {"int", "float"} -> <<v>>
    [] v[1] \in {"list", "tuple"} -> <<LBK>> \o DumpsItems(v[2]) \o <<RBK>>
    [] v[1] = "dict" -> <<LB>> \o DumpsPairs(v[2]) \o <<RB>>
DumpsItems(xs) ==
  IF xs = <<>> THEN <<>> ELSE Dumps(Head(xs)) \o DumpsItems(Tail(xs))
DumpsPairs(ps) ==
  IF ps = <<>> THEN <<>>
  ELSE KeyText(Head(ps)[1]) \o Dumps(Head(ps)[2]) \o DumpsPairs(Tail(ps))
\* lines 69-76: the message dict, and json.dumps(message) + '\n'
MessageDict(t, d) ==
  <<"dict", << <<PyStr(<<"type">>), t>>,
               <<PyStr(<<"timestamp">>), <<"float", "now">> >>,
               <<PyStr(<<"data">>), d>> >> >>
EncodeMessage(t, d) == Dumps(MessageDict(t, d)) \o <<NL>>

\* json.loads(line): a parser of the tokens; ok is false for a text that is
\* not JSON (json.JSONDecodeError)
NoParse == [ok |-> FALSE, v |-> <<"error", "">>, next |-> 0]
Parsed(v, next) == [ok |-> TRUE, v |-> v, next |-> next]
\* a dict after d[k] = v: an existing key keeps its place
PairsPut(ps, k, v) ==
  IF \E i \in 1..Len(ps) : ps[i][1] = k
    THEN [i \in 1..Len(ps) |-> IF ps[i][1] = k THEN <<k, v>> ELSE ps[i]]
    ELSE Append(ps, <<k, v>>)
ParseString(toks, i) ==
  LET js == {j \in (i + 1)..Len(toks) : toks[j] = QUOTE}
  IN  IF js = {} THEN NoParse
      ELSE LET j == CHOOSE j \in js : \A k \in js : j <= k
           IN  Parsed(PyStr([k \in 1..(j - i - 1) |->
                               IF toks[i + k] = EscN THEN LF ELSE toks[i + k][2]]),
                      j + 1)
RECURSIVE ParseValue(_, _), ParseItems(_, _), ParsePairs(_, _, _)
ParseValue(toks, i) ==
  IF i > Len(toks) THEN NoParse
  ELSE IF toks[i][1] \in {"int", "float"} THEN Parsed(toks[i], i + 1)
  ELSE IF toks[i] = QUOTE THEN ParseString(toks, i)
  ELSE IF toks[i] = LBK
    THEN LET r == ParseItems(toks, i + 1)
         IN  IF r.ok THEN Parsed(<<"list", r.v>>, r.next) ELSE NoParse
  ELSE IF toks[i] = LB
    THEN LET r == ParsePairs(toks, i + 1, <<>>)
         IN  IF r.ok THEN Parsed(<<"dict", r.v>>, r.next) ELSE NoParse
  ELSE NoParse
ParseItems(toks, i) ==
  IF i > Len(toks) THEN NoParse
  ELSE IF toks[i] = RBK THEN Parsed(<<>>, i + 1)
  ELSE LET h == ParseValue(toks, i)
       IN  IF ~h.ok THEN NoParse
           ELSE LET t == ParseItems(toks, h.next)
                IN  IF t.ok THEN Parsed(<<h.v>> \o t.v, t.next) ELSE NoParse
ParsePairs(toks, i, ps) ==
  IF i > Len(toks) THEN NoParse
  ELSE IF toks[i] = RB THEN Parsed(ps, i + 1)
  ELSE IF toks[i] # QUOTE THEN NoParse
  ELSE LET k == ParseString(toks, i)
       IN  IF ~k.ok THEN NoParse
           ELSE LET v == ParseValue(toks, k.next)
                IN  IF ~v.ok THEN NoParse
                    ELSE ParsePairs(toks, v.next, PairsPut(ps, k.v, v.v))
Loads(line) ==
  LET r == ParseValue(line, 1)
  IN  IF r.ok /\ r.next = Len(line) + 1 THEN r ELSE NoParse
\* d[k] of a dict, and k in d
PyHas(v, k) == \E i \in 1..Len(v[2]) : v[2][i][1] = k
PyGet(v, k) == v[2][CHOOSE i \in 1..Len(v[2]) : v[2][i][1] = k][2]

(***************************************************************************)
(* The registry peer_connections is a CPython dict: entries in insertion   *)
(* order, a deleted entry leaves a hole, a new key is appended, an         *)
(* existing key keeps its place.  (No resize happens below six inserts.)   *)
(* Holes matter to a live iterator only: DictDel(d, k, iterating) leaves   *)
(* one when an iterator is live and closes the gap when there is none.     *)
(***************************************************************************)
Hole == [k |-> None, v |-> 0, live |-> FALSE]
DictHas(d, k) == \E i \in 1..Len(d) : d[i].live /\ d[i].k = k
DictIdx(d, k) == CHOOSE i \in 1..Len(d) : d[i].live /\ d[i].k = k
DictGet(d, k) == d[DictIdx(d, k)].v
DictPut(d, k, v) ==
  IF DictHas(d, k) THEN [d EXCEPT ![DictIdx(d, k)].v = v]
  ELSE Append(d, [k |-> k, v |-> v, live |-> TRUE])
DictCompact(d) == SelectSeq(d, LAMBDA e : e.live)
DictDel(d, k, iterating) ==
  IF iterating THEN [d EXCEPT ![DictIdx(d, k)] = Hole]
  ELSE DictCompact([d EXCEPT ![DictIdx(d, k)] = Hole])
DictUsed(d) == Cardinality({i \in 1..Len(d) : d[i].live})
LiveIdx(d) == {i \in 1..Len(d) : d[i].live}
RECURSIVE DictKeysFrom(_, _)
DictKeysFrom(d, i) ==
  IF i > Len(d) THEN <<>>
  ELSE IF d[i].live THEN <<d[i].k>> \o DictKeysFrom(d, i + 1)
  ELSE DictKeysFrom(d, i + 1)
\* list(d.keys())
DictKeys(d) == DictKeysFrom(d, 1)
DictKeySet(d) == {d[i].k : i \in LiveIdx(d)}
DictValSet(d) == {d[i].v : i \in LiveIdx(d)}

VARIABLES
  is_running,        \* P2PNode.is_running
  socket,            \* P2PNode.socket: 0 is None, else a socket id
  peer_connections,  \* P2PNode.peer_connections
  message_handlers,  \* P2PNode.message_handlers: type -> callback or None
  upnp_enabled,      \* NATTraversal.upnp_enabled
  socks,             \* the sockets created so far, by id
  workers,           \* the _handle_peer_messages thread of each socket
  listeners,         \* the _listen_for_connections threads
  cpc,               \* where the application thread is
  cvar,              \* the locals of the method it is in
  ret,               \* the last method completed and how it ended
  nsends,            \* send_message and broadcast_message calls so far
  nframes,           \* frames written by remote peers so far
  nat_calls,         \* calls of setup_port_forwarding so far
  sockcap,           \* sockets the run may create (fixed by the specification)
  upnp_requests,     \* the AddPortMapping requests the routers have received
  codec,             \* a message on its way through encoder and frame decoder
  senders            \* further application threads, each in a send_message

vars == <<is_running, socket, peer_connections, message_handlers, upnp_enabled,
          socks, workers, listeners, cpc, cvar, ret, nsends, nframes, nat_calls, sockcap, upnp_requests, codec, senders>>

node == <<is_running, socket, peer_connections, message_handlers, upnp_enabled>>

\* pid, type, data, sock: arguments and locals; it_*: the dict iterator of
\* stop_node; todo: what is left of broadcast's list; inb: send_message was
\* called by broadcast_message.  History kept to state properties: snap, the
\* registry when broadcast_message was called; sends, the peer ids it has
\* called send_message for; stopped, the node was Stopped when stop_node
\* was called
CvarInit ==
  [pid |-> None, type |-> None, data |-> None, sock |-> 0,
   it_pos |-> 0, it_len |-> 0, it_used |-> 0,
   todo |-> <<>>, snap |-> <<>>, sends |-> <<>>, inb |-> FALSE,
   stopped |-> FALSE]

NoWorker == [pc |-> "none", pid |-> None, buf |-> <<>>, calls |-> <<>>]
\* the codec at rest.  msg: the type and data given to the encoder; frame:
\* what the encoder produced; wire: the part of it not yet received; buf:
\* the buffer of the frame decoder; out: the messages decoded so far; bad:
\* the lines it could not decode
CodecIdle ==
  [pc |-> "idle", msg |-> <<>>, frame |-> <<>>, wire |-> <<>>, buf |-> <<>>,
   out |-> <<>>, bad |-> 0]

\* the threads of the application that call send_message side by side
SenderIds == {1, 2}
\* none of them has called yet.  pid, data: the peer id and the encoded
\* message of the call; sock: the socket send was called on; rest: the
\* bytes of data the kernel has not taken; ret: what the call returned
NoSenders ==
  [k \in SenderIds |->
     [pc |-> "idle", pid |-> None, data |-> <<>>, sock |-> 0, rest |-> <<>>,
      ret |-> None]]

\* P2PNode.__init__ and NATTraversal.__init__
Constructed ==
  /\ is_running = FALSE
  /\ socket = 0
  /\ peer_connections = <<>>
  /\ message_handlers = [t \in Types |-> None]
  /\ upnp_enabled = FALSE
  /\ socks = <<>>
  /\ workers = <<>>
  /\ listeners = <<>>
  /\ cpc = "idle"
  /\ cvar = CvarInit
  /\ ret = [op |-> None, val |-> None]
  /\ nsends = 0
  /\ nframes = 0
  /\ nat_calls = 0
  /\ upnp_requests = <<>>
  /\ codec = CodecIdle
  /\ senders = NoSenders
Init == Constructed /\ sockcap = MaxSock

(***************************************************************************)
(* Sockets.  closed: close() was called on the Python object; remote: what *)
(* the other end of a connection did; inflight: bytes written by the       *)
(* remote end and not yet returned by recv; sent: the arguments of the     *)
(* send calls made on the socket that returned, in order (what the kernel  *)
(* does with them is not modelled).  History kept to state properties:     *)
(* rsent, the frames the remote end wrote, each with the handler its type  *)
(* had then; failed, the number of send calls on the socket that raised.   *)
(* wire: the bytes the kernel has taken from the send calls of the sender  *)
(* threads, in the order the remote end receives them.                     *)
(***************************************************************************)
ListenSock(bound) ==
  [kind |-> "listen", listening |-> bound, closed |-> FALSE, remote |-> "none",
   addr |-> NoAddr, inflight |-> <<>>, rsent |-> <<>>, sent |-> <<>>, failed |-> 0,
   wire |-> <<>>]
ConnSock(a) ==
  [kind |-> "conn", listening |-> FALSE, closed |-> FALSE, remote |-> "open",
   addr |-> a, inflight |-> <<>>, rsent |-> <<>>, sent |-> <<>>, failed |-> 0,
   wire |-> <<>>]
SockIds == 1..Len(socks)
ConnIds == {s \in SockIds : socks[s].kind = "conn"}
\* socket.close()
CloseSock(ss, s) == [ss EXCEPT ![s].closed = TRUE]
\* a connection whose worker has ended: no thread and no registry entry
\* refers to the socket any more, and the socket object is collected
DeadSock ==
  [kind |-> "conn", listening |-> FALSE, closed |-> TRUE, remote |-> "none",
   addr |-> NoAddr, inflight |-> <<>>, rsent |-> <<>>, sent |-> <<>>, failed |-> 0,
   wire |-> <<>>]
Reap(ss, s) == [ss EXCEPT ![s] = DeadSock]
EndedWorker(how) == [pc |-> how, pid |-> None, buf |-> <<>>, calls |-> <<>>]
\* threading.Thread(target=self._handle_peer_messages, args=(sock, pid)).start()
SpawnWorker(ws, s, pid) ==
  [ws EXCEPT ![s] = [pc |-> "loop", pid |-> pid, buf |-> <<>>, calls |-> <<>>]]

\* bind() fails with EADDRINUSE while a listening socket of this node is open
\* on the port; it may fail anyway (another process, no permission)
PortFree == \A s \in SockIds : ~(socks[s].listening /\ ~socks[s].closed)

\* the method op ends with outcome val: "raised", or what it returns
Called(op, val) == ret' = [op |-> op, val |-> val]
\* the application thread is between two calls and makes the next one
BeginCall == cpc = "idle"
\* ... and the call is a send_message or a broadcast_message
BeginSend == BeginCall /\ nsends < MaxSends /\ nsends' = nsends + 1

(***************************************************************************)
(* start_node                                                              *)
(***************************************************************************)
\* line 23: what a successful bind and listen sets is_running to
RunningAfterListen == TRUE
\* the socket self.socket referred to loses its last reference, and is
\* closed by the collector, unless an accept loop is blocked in its accept()
Unreferenced(ss, old) ==
  IF old # 0 /\ \A i \in 1..Len(listeners) : listeners[i].lsock # old
    THEN CloseSock(ss, old) ELSE ss
\* (start_node with line 23 and line 26 moved before the bind)
RunningBeforeBind == <<"socket", "is_running", "nat", "bind", "listen", "thread">>
\* the statements of start_node in program order
StartNodeOrder == <<"socket", "bind", "listen", "is_running", "nat", "thread">>
\* the statements a method has executed when its statement x raises
DoneBefore(order, x) ==
  {order[i] : i \in 1..((CHOOSE j \in 1..Len(order) : order[j] = x) - 1)}
NewListener == [pc |-> "loop", lsock |-> 0, csock |-> 0]
\* lines 19-22: the new socket replaces self.socket, then bind and listen;
\* a failure leaves the method through the exception, with the statements
\* before bind done and the others not
StartNode_Bind(ok) ==
  /\ BeginCall
  /\ Len(socks) < sockcap
  /\ ok => PortFree
  /\ socks' = Append(Unreferenced(socks, socket), ListenSock(ok))
  /\ workers' = Append(workers, NoWorker)
  /\ socket' = Len(socks) + 1
  /\ IF ok
       THEN /\ cpc' = "start_running"
            /\ UNCHANGED <<ret, is_running, nat_calls, listeners>>
       ELSE LET done == DoneBefore(StartNodeOrder, "bind")
            IN  /\ cpc' = "idle"
                /\ Called("start_node", "raised")
                /\ is_running' = IF "is_running" \in done THEN TRUE ELSE is_running
                /\ nat_calls' = IF "nat" \in done THEN nat_calls + 1 ELSE nat_calls
                /\ listeners' = IF "thread" \in done
                                  THEN Append(listeners, NewListener) ELSE listeners
  /\ UNCHANGED <<peer_connections, message_handlers, upnp_enabled,
                 cvar, nsends, nframes, sockcap, upnp_requests, codec, senders>>
\* NATTraversal.setup_port_forwarding.  What the environment lets it do:
\* lib, upnpclient can be imported; discover, discover() returns (a list of
\* `devices` routers) rather than raising; local_ip, _get_local_ip() returns;
\* accepting, the routers that accept an AddPortMapping request.  What the
\* call never gets to look at is left at one value: no discovery without
\* the library, no routers without a discovery, only routers that were
\* found accept, and the local address is known when nobody asks for it
NatEnvs ==
  {e \in [lib : BOOLEAN, discover : BOOLEAN, devices : 0..MaxDevices,
          local_ip : BOOLEAN, accepting : SUBSET (1..MaxDevices)] :
     /\ ~e.lib => ~e.discover
     /\ ~e.discover => e.devices = 0
     /\ e.devices = 0 => e.local_ip
     /\ e.accepting \subseteq 1..e.devices}
\* the environments of a network without a UPnP router
NoRouterEnvs == {e \in NatEnvs : e.devices = 0 /\ e.accepting = {}}
\* (the last router of the list instead of the first)
LastDevice(n) == n
\* line 15: device = devices[0], the routers being numbered from 1
FirstDevice(n) == 1
\* lines 16-25: the request sent to router dev
PortMapping(dev, port) ==
  [dev |-> dev, NewExternalPort |-> port, NewProtocol |-> "TCP",
   NewInternalPort |-> port]
\* the exception raised inside the try of line 11, None when there is none:
\* the import (line 12), discover() (line 13), _get_local_ip() while the
\* arguments of the request are evaluated (line 21), the request itself
NatError(env) ==
  IF ~env.lib THEN "ImportError"
  ELSE IF ~env.discover THEN "DiscoveryError"
  ELSE IF env.devices = 0 THEN None
  ELSE IF ~env.local_ip THEN "OSError"
  ELSE IF FirstDevice(env.devices) \notin env.accepting THEN "MappingError"
  ELSE None
\* (a handler for OSError only)
NatCaughtOSError == {"OSError"}
\* line 28: except Exception catches every one of them
NatCaught == {"ImportError", "DiscoveryError", "OSError", "MappingError"}
\* lines 11-31: how the call ends ("raised", or the value it returns), the
\* requests it sent, and whether line 26 was reached
SetupPortForwarding(env, port) ==
  LET err == NatError(env)
      asked == env.lib /\ env.discover /\ env.devices > 0 /\ env.local_ip
      mapped == asked /\ err = None
  IN  [result |-> IF err # None /\ err \notin NatCaught THEN "raised"
                  ELSE IF mapped THEN "True" ELSE "False",
       requests |-> IF asked THEN <<PortMapping(FirstDevice(env.devices), port)>>
                    ELSE <<>>,
       enabled |-> mapped]
\* (a helper that sets the flag to the outcome of every call)
EnabledReset(was, mapped) == mapped
\* line 26, the only assignment to upnp_enabled after __init__: the flag
\* after a call, given the flag before it and whether line 26 was reached
EnabledAfter(was, mapped) == was \/ mapped
\* lines 23-26: is_running is set, then the NAT helper is asked for a port
\* mapping (no other thread reads what the helper does); what the helper
\* returns is not looked at, what it raises leaves start_node
StartNode_Running(env) ==
  /\ cpc = "start_running"
  /\ is_running' = RunningAfterListen
  /\ LET r == SetupPortForwarding(env, Port)
     IN  /\ upnp_enabled' = EnabledAfter(upnp_enabled, r.enabled)
         /\ upnp_requests' = upnp_requests \o r.requests
         /\ IF r.result = "raised"
              THEN cpc' = "idle" /\ Called("start_node", "raised")
              ELSE cpc' = "start_spawn" /\ ret' = ret
  /\ nat_calls' = nat_calls + 1
  /\ UNCHANGED <<socket, peer_connections, message_handlers, socks,
                 workers, listeners, cvar, nsends, nframes, sockcap, codec, senders>>
\* the application calls node.nat_traversal.setup_port_forwarding(port) itself
NatTraversal_Setup(env, port) ==
  /\ BeginCall
  /\ nat_calls < MaxNatCalls
  /\ nat_calls' = nat_calls + 1
  /\ LET r == SetupPortForwarding(env, port)
     IN  /\ upnp_enabled' = EnabledAfter(upnp_enabled, r.enabled)
         /\ upnp_requests' = upnp_requests \o r.requests
         /\ Called("setup_port_forwarding", r.result)
  /\ UNCHANGED <<is_running, socket, peer_connections, message_handlers, socks,
                 workers, listeners, cpc, cvar, nsends, nframes, sockcap, codec, senders>>
\* lines 29-33
StartNode_Spawn ==
  /\ cpc = "start_spawn"
  /\ listeners' = Append(listeners, NewListener)
  /\ cpc' = "idle"
  /\ Called("start_node", "ok")
  /\ UNCHANGED <<is_running, socket, peer_connections, message_handlers,
                 upnp_enabled, socks, workers, cvar, nsends, nframes, nat_calls, sockcap, upnp_requests, codec, senders>>

(***************************************************************************)
(* stop_node                                                               *)
(***************************************************************************)
\* line 37
StopNode_Begin ==
  /\ BeginCall
  /\ is_running' = FALSE
  /\ cpc' = "stop_close"
  /\ cvar' = [CvarInit EXCEPT !.stopped = ~is_running /\ DictUsed(peer_connections) = 0]
  /\ UNCHANGED <<socket, peer_connections, message_handlers, upnp_enabled, socks,
                 workers, listeners, ret, nsends, nframes, nat_calls, sockcap, upnp_requests, codec, senders>>
\* lines 38-40: close the listening socket, then create the iterator of
\* peer_connections.values() (it remembers the dict's size)
StopNode_CloseListen ==
  /\ cpc = "stop_close"
  /\ socks' = IF socket # 0 THEN CloseSock(socks, socket) ELSE socks
  /\ cvar' = [cvar EXCEPT !.it_pos = 1,
                          !.it_used = DictUsed(peer_connections),
                          !.it_len = DictUsed(peer_connections)]
  /\ cpc' = "stop_iter"
  /\ UNCHANGED <<node, workers, listeners, ret, nsends, nframes, nat_calls, sockcap, upnp_requests, codec, senders>>
\* the next live entry at or after position i, 0 when there is none
NextLive(d, i) ==
  IF \E j \in i..Len(d) : d[j].live
    THEN CHOOSE j \in i..Len(d) : d[j].live /\ \A l \in i..(j - 1) : ~d[l].live
    ELSE 0
\* line 40-41, one turn of the for loop: the iterator raises RuntimeError
\* when the dict's size is not the one it remembers, or when it has given
\* out as many values as the dict had and finds one more; otherwise the
\* next socket is closed; when no entry is left the loop ends
StopNode_Iter ==
  /\ cpc = "stop_iter"
  /\ LET d == peer_connections
         j == NextLive(d, cvar.it_pos)
     IN  IF DictUsed(d) # cvar.it_used \/ (j # 0 /\ cvar.it_len = 0)
           THEN /\ cpc' = "idle"
                /\ cvar' = CvarInit
                /\ Called("stop_node", "raised")
                /\ socks' = socks
                /\ peer_connections' = DictCompact(d)
         ELSE IF j = 0
           THEN /\ cpc' = "stop_clear"
                /\ UNCHANGED <<cvar, ret, socks, peer_connections>>
         ELSE /\ socks' = CloseSock(socks, d[j].v)
              /\ cvar' = [cvar EXCEPT !.it_pos = j + 1, !.it_len = cvar.it_len - 1]
              /\ UNCHANGED <<cpc, ret, peer_connections>>
  /\ UNCHANGED <<is_running, socket, message_handlers, upnp_enabled, workers,
                 listeners, nsends, nframes, nat_calls, sockcap, upnp_requests, codec, senders>>
\* line 42: peer_connections.clear()
ClearedRegistry == <<>>
StopNode_Clear ==
  /\ cpc = "stop_clear"
  /\ peer_connections' = ClearedRegistry
  /\ cpc' = "idle"
  /\ cvar' = CvarInit
  /\ Called("stop_node", "ok")
  /\ UNCHANGED <<is_running, socket, message_handlers, upnp_enabled, socks,
                 workers, listeners, nsends, nframes, nat_calls, sockcap, upnp_requests, codec, senders>>

(***************************************************************************)
(* connect_to_peer                                                         *)
(***************************************************************************)
\* (a connect_to_peer that stores nothing)
NoEntry(d, pid, s) == d
\* line 49: the entry connect_to_peer stores
ConnectEntry(d, pid, s) == DictPut(d, pid, s)
\* (a connect_to_peer without the try of line 46)
ConnectErrorRaised == "raised"
\* lines 60-62: what connect_to_peer does with the exception of connect()
ConnectErrorReturn == "False"
\* (a connect_to_peer that closes the connection whose entry it replaces)
CloseReplaced(ss, d, pid) == IF DictHas(d, pid) THEN CloseSock(ss, DictGet(d, pid)) ELSE ss
\* line 49: what the assignment does to the socket the entry held before
ReplacedSocket(ss, d, pid) == ss
\* lines 47-57: connect() raises and the method returns False (line 60), or
\* the connection is made, registered and its worker started (the new socket
\* is known to no other thread before line 49)
ConnectToPeer_Connect(pid, ok) ==
  /\ BeginCall
  /\ IF ok
       THEN /\ Len(socks) < sockcap
            /\ socks' = Append(ReplacedSocket(socks, peer_connections, pid), ConnSock(NoAddr))
            /\ peer_connections' = ConnectEntry(peer_connections, pid, Len(socks) + 1)
            /\ workers' = SpawnWorker(Append(workers, NoWorker), Len(socks) + 1, pid)
            /\ cvar' = [CvarInit EXCEPT !.pid = pid, !.sock = Len(socks) + 1]
            /\ cpc' = "conn_ret"
            /\ ret' = ret
       ELSE /\ Called("connect_to_peer", ConnectErrorReturn)
            /\ UNCHANGED <<peer_connections, socks, workers, cvar, cpc>>
  /\ UNCHANGED <<is_running, socket, message_handlers, upnp_enabled, listeners,
                 nsends, nframes, nat_calls, sockcap, upnp_requests, codec, senders>>
\* line 59
ConnectToPeer_Return ==
  /\ cpc = "conn_ret"
  /\ cpc' = "idle"
  /\ cvar' = CvarInit
  /\ Called("connect_to_peer", "True")
  /\ UNCHANGED <<node, socks, workers, listeners, nsends, nframes, nat_calls, sockcap, upnp_requests, codec, senders>>

(***************************************************************************)
(* send_message and broadcast_message                                      *)
(***************************************************************************)
\* line 66: peer_id in self.peer_connections
PeerRegistered(pid) == DictHas(peer_connections, pid)
\* (a send_message that reports success for every peer id)
UnknownPeerTrue == "True"
\* line 67: what send_message returns for a peer id that is not registered
UnknownPeerReturn == "False"
\* socket.send raises on a closed socket and on a connection the peer reset
SendRaises(s) == socks[s].closed \/ socks[s].remote = "reset"
\* lines 66-67 of a direct call
SendMessage_Call(pid, t, d) ==
  /\ BeginSend
  /\ IF PeerRegistered(pid)
       THEN /\ cpc' = "send_io"
            /\ cvar' = [CvarInit EXCEPT !.pid = pid, !.type = t, !.data = d]
            /\ ret' = ret
       ELSE /\ cpc' = "idle"
            /\ cvar' = cvar
            /\ Called("send_message", UnknownPeerReturn)
  /\ UNCHANGED <<node, socks, workers, listeners, nframes, nat_calls, sockcap, upnp_requests, codec, senders>>
\* (a send_message that drops the entry of a peer it could not write to)
DropOnFailure(d, pid) == IF DictHas(d, pid) THEN DictDel(d, pid, FALSE) ELSE d
\* lines 79-81: what the except clause of send_message does to the registry
AfterSendFailure(d, pid) == d
\* lines 69-81: the lookup self.peer_connections[peer_id] raises KeyError when
\* the entry is gone, send raises on a dead socket; both are caught.  The
\* value send returns (the number of bytes it took) is not looked at
SendMessage_IO ==
  /\ cpc = "send_io"
  /\ LET has == DictHas(peer_connections, cvar.pid)
         s == DictGet(peer_connections, cvar.pid)
         sent == has /\ ~SendRaises(s)
         data == Encode(cvar.type, cvar.data)
     IN  /\ socks' = IF sent THEN [socks EXCEPT ![s].sent = Append(@, data)]
                     ELSE IF has THEN [socks EXCEPT ![s].failed = @ + 1]
                     ELSE socks
         /\ peer_connections' = IF sent THEN peer_connections
                                ELSE AfterSendFailure(peer_connections, cvar.pid)
         /\ IF cvar.inb
              THEN /\ cpc' = "bcast_loop"
                   /\ cvar' = [cvar EXCEPT !.pid = None]
                   /\ ret' = ret
              ELSE /\ cpc' = "idle"
                   /\ cvar' = CvarInit
                   /\ Called("send_message", IF sent THEN "True" ELSE "False")
  /\ UNCHANGED <<is_running, socket, message_handlers, upnp_enabled, workers,
                 listeners, nsends, nframes, nat_calls, sockcap, upnp_requests, codec, senders>>
\* the registry as broadcast_message finds it: each entry with the number of
\* send calls made on its socket so far
Snapshot(d) ==
  [i \in 1..Len(DictCompact(d)) |->
     [k |-> DictCompact(d)[i].k, v |-> DictCompact(d)[i].v,
      n |-> Len(socks[DictCompact(d)[i].v].sent)]]
\* (a broadcast that leaves out the entry registered last)
AllButLast == SubSeq(DictKeys(peer_connections), 1, DictUsed(peer_connections) - 1)
\* line 85: list(self.peer_connections.keys())
BroadcastTargets == DictKeys(peer_connections)
BroadcastMessage_Snapshot(t, d) ==
  /\ BeginSend
  /\ cvar' = [CvarInit EXCEPT !.type = t, !.data = d, !.inb = TRUE,
                              !.todo = BroadcastTargets,
                              !.snap = Snapshot(peer_connections)]
  /\ cpc' = "bcast_loop"
  /\ UNCHANGED <<node, socks, workers, listeners, ret, nframes, nat_calls, sockcap, upnp_requests, codec, senders>>
\* lines 85-86, one turn of the loop: send_message(peer_id, ...) up to its
\* line 67, or the end of the loop and the return
BroadcastMessage_Loop ==
  /\ cpc = "bcast_loop"
  /\ IF cvar.todo = <<>>
       THEN /\ cpc' = "idle"
            /\ cvar' = CvarInit
            /\ Called("broadcast_message", "ok")
       ELSE LET pid == Head(cvar.todo)
            IN  /\ cvar' = [cvar EXCEPT !.todo = Tail(cvar.todo),
                                        !.sends = Append(cvar.sends, pid),
                                        !.pid = IF PeerRegistered(pid) THEN pid ELSE None]
                /\ cpc' = IF PeerRegistered(pid) THEN "send_io" ELSE "bcast_loop"
                /\ ret' = ret
  /\ UNCHANGED <<node, socks, workers, listeners, nsends, nframes, nat_calls, sockcap, upnp_requests, codec, senders>>

\* send_message called by thread k, lines 66-76: the membership test, the
\* message and its encoding
Sender_Call(k, pid, t, d) ==
  /\ senders[k].pc = "idle"
  /\ senders' = [senders EXCEPT ![k] =
       IF PeerRegistered(pid)
         THEN [@ EXCEPT !.pc = "io", !.pid = pid, !.data = Encode(t, d)]
         ELSE [@ EXCEPT !.pc = "done", !.pid = pid, !.ret = UnknownPeerReturn]]
  /\ UNCHANGED <<node, socks, workers, listeners, cpc, cvar, ret, nsends,
                 nframes, nat_calls, sockcap, upnp_requests, codec>>
\* line 77: the lookup, and send is entered (nothing is held meanwhile: the
\* code has no lock); it raises at once on a dead socket, or without an
\* entry, and the call returns False (lines 79-81)
Sender_Send(k) ==
  /\ senders[k].pc = "io"
  /\ LET has == DictHas(peer_connections, senders[k].pid)
         s == DictGet(peer_connections, senders[k].pid)
     IN  senders' = [senders EXCEPT ![k] =
           IF has /\ ~SendRaises(s)
             THEN [@ EXCEPT !.pc = "send", !.sock = s, !.rest = senders[k].data]
             ELSE [@ EXCEPT !.pc = "done", !.ret = "False"]]
  /\ UNCHANGED <<node, socks, workers, listeners, cpc, cvar, ret, nsends,
                 nframes, nat_calls, sockcap, upnp_requests, codec>>
\* inside socket.send of thread k: the kernel takes the next n bytes of the
\* data (as many as it has room for) and the call goes on or waits
Kernel_Take(k, n) ==
  /\ senders[k].pc = "send"
  /\ n \in 1..Len(senders[k].rest)
  /\ socks' = [socks EXCEPT ![senders[k].sock].wire =
                               @ \o SubSeq(senders[k].rest, 1, n)]
  /\ senders' = [senders EXCEPT ![k].rest = SubSeq(@, n + 1, Len(@))]
  /\ UNCHANGED <<node, workers, listeners, cpc, cvar, ret, nsends,
                 nframes, nat_calls, sockcap, upnp_requests, codec>>
\* lines 77-78: send returns the number of bytes taken so far, all of the
\* data or a part of it; the number is not looked at and the call of
\* send_message returns True
Sender_Return(k) ==
  /\ senders[k].pc = "send"
  /\ Len(senders[k].rest) < Len(senders[k].data)
  /\ senders' = [senders EXCEPT ![k].pc = "done", ![k].ret = "True"]
  /\ UNCHANGED <<node, socks, workers, listeners, cpc, cvar, ret, nsends,
                 nframes, nat_calls, sockcap, upnp_requests, codec>>

\* (a table that keeps the handler registered first)
FirstWins(tbl, t, h) == IF tbl[t] = None THEN [tbl EXCEPT ![t] = h] ELSE tbl
\* line 90: self.message_handlers[message_type] = handler
Registered(tbl, t, h) == [tbl EXCEPT ![t] = h]
AddMessageHandler(t, h) ==
  /\ BeginCall
  /\ message_handlers' = Registered(message_handlers, t, h)
  /\ cpc' = "idle"
  /\ Called("add_message_handler", "ok")
  /\ UNCHANGED <<is_running, socket, peer_connections, upnp_enabled, socks,
                 workers, listeners, cvar, nsends, nframes, nat_calls, sockcap, upnp_requests, codec, senders>>

(***************************************************************************)
(* _listen_for_connections, one thread per successful start_node           *)
(***************************************************************************)
ListenerIds == 1..Len(listeners)
\* a remote endpoint has one connection to the node at a time
AddrFree(a) ==
  \A s \in ConnIds : socks[s].addr = a => socks[s].remote # "open"
\* lines 94-96: the loop test, then self.socket.accept() is entered; on a
\* socket that is closed or not listening it raises at once, the exception
\* is caught at line 107 and the loop goes round
Listen_Loop(i) ==
  /\ listeners[i].pc = "loop"
  /\ listeners' =
       IF ~is_running THEN [listeners EXCEPT ![i].pc = "done"]
       ELSE IF socks[socket].closed \/ ~socks[socket].listening THEN listeners
       ELSE [listeners EXCEPT ![i].pc = "accept", ![i].lsock = socket]
  /\ UNCHANGED <<node, socks, workers, cpc, cvar, ret, nsends, nframes, nat_calls, sockcap, upnp_requests, codec, senders>>
\* accept() of thread i returns: the thread lets go of the socket it called
\* accept() on, and the socket is closed by the collector when self.socket
\* is another one by now and no other thread is blocked in its accept()
Released(ss, i) ==
  LET l == listeners[i].lsock
  IN  IF l # socket /\ \A j \in ListenerIds \ {i} : listeners[j].lsock # l
        THEN CloseSock(ss, l) ELSE ss
\* line 96: accept() returns a connection from endpoint a.  A thread that
\* blocked in accept() before the socket was closed may still get one
Listen_Accept(i, a) ==
  /\ listeners[i].pc = "accept"
  /\ Len(socks) < sockcap
  /\ AddrFree(a)
  /\ socks' = Append(Released(socks, i), ConnSock(a))
  /\ workers' = Append(workers, NoWorker)
  /\ listeners' = [listeners EXCEPT ![i].pc = "register", ![i].lsock = 0,
                                    ![i].csock = Len(socks) + 1]
  /\ UNCHANGED <<node, cpc, cvar, ret, nsends, nframes, nat_calls, sockcap, upnp_requests, codec, senders>>
\* line 96 and 107-109: accept() raises because the socket was closed
Listen_AcceptError(i) ==
  /\ listeners[i].pc = "accept"
  /\ socks[listeners[i].lsock].closed
  /\ listeners' = [listeners EXCEPT ![i].pc = "loop", ![i].lsock = 0]
  /\ UNCHANGED <<node, socks, workers, cpc, cvar, ret, nsends, nframes, nat_calls, sockcap, upnp_requests, codec, senders>>
\* lines 97-105: register the connection and start its worker
Listen_Register(i) ==
  /\ listeners[i].pc = "register"
  /\ LET c == listeners[i].csock
         pid == InboundPeerId(socks[c].addr)
     IN  /\ peer_connections' = DictPut(peer_connections, pid, c)
         /\ workers' = SpawnWorker(workers, c, pid)
  /\ listeners' = [listeners EXCEPT ![i].pc = "loop", ![i].lsock = 0, ![i].csock = 0]
  /\ UNCHANGED <<is_running, socket, message_handlers, upnp_enabled, socks,
                 cpc, cvar, ret, nsends, nframes, nat_calls, sockcap, upnp_requests, codec, senders>>

(***************************************************************************)
(* _handle_peer_messages, one thread per connection                        *)
(***************************************************************************)
WorkerAt(s, pc) == workers[s].pc = pc
\* (a worker that reads whatever is_running is)
LoopAlways(running) == TRUE
\* line 114: while self.is_running
LoopTest(running) == running
\* lines 114-116: the loop test, then recv is entered; on a closed socket it
\* raises at once and the exception leads to the clean-up
Worker_Loop(s) ==
  /\ WorkerAt(s, "loop")
  /\ workers' = [workers EXCEPT ![s].pc =
                   IF LoopTest(is_running) /\ ~socks[s].closed THEN "recv" ELSE "close"]
  /\ UNCHANGED <<node, socks, listeners, cpc, cvar, ret, nsends, nframes, nat_calls, sockcap, upnp_requests, codec, senders>>
\* lines 116-120: recv returns the next n bytes; decode() raises on a byte
\* that is not UTF-8, else the text is added to the buffer
Worker_Recv(s, n) ==
  /\ WorkerAt(s, "recv")
  /\ socks[s].remote # "reset"
  /\ n \in 1..Len(socks[s].inflight)
  /\ LET chunk == SubSeq(socks[s].inflight, 1, n)
     IN  workers' = IF DecodeFails(chunk)
                      THEN [workers EXCEPT ![s].pc = "close"]
                      ELSE [workers EXCEPT ![s].pc = "frames", ![s].buf = @ \o chunk]
  /\ socks' = [socks EXCEPT ![s].inflight = SubSeq(@, n + 1, Len(@))]
  /\ UNCHANGED <<node, listeners, cpc, cvar, ret, nsends, nframes, nat_calls, sockcap, upnp_requests, codec, senders>>
\* lines 116-118 and 132-134: recv returns b'' at the end of the stream, or
\* raises (connection reset, socket closed under the blocked call)
Worker_RecvEnd(s) ==
  /\ WorkerAt(s, "recv")
  /\ \/ socks[s].inflight = <<>> /\ socks[s].remote = "eof"
     \/ socks[s].remote = "reset"
     \/ socks[s].closed
  /\ workers' = [workers EXCEPT ![s].pc = "close"]
  /\ UNCHANGED <<node, socks, listeners, cpc, cvar, ret, nsends, nframes, nat_calls, sockcap, upnp_requests, codec, senders>>
\* line 127: message_type in self.message_handlers
HandlerFor(t) == IF t \in Types THEN message_handlers[t] ELSE None
\* (a lookup of the handler that raises KeyError for an unknown type)
NoHandlerRaise == "raise"
\* line 127: what becomes of a message whose type is not in the table
NoHandlerOutcome == "skip"
\* lines 123-130 for one line: "skip" the line, "call" the handler, or
\* "raise" out of the loop to line 132 (after the call when the handler
\* itself raises)
LineOutcome(line) ==
  LET m == JsonLoads(line)
      h == HandlerFor(m.val["type"])
  IN  IF line = <<>> THEN "skip"
      ELSE IF m.kind = "error" THEN "skip"
      ELSE IF m.kind = "scalar" THEN "raise"
      ELSE IF h = None THEN NoHandlerOutcome
      ELSE IF "data" \notin m.keys THEN "raise"
      ELSE "call"
\* line 128: the call self.message_handlers[message_type](peer_id, message['data'])
HandlerCall(pid, line) ==
  LET m == JsonLoads(line)
  IN  [h |-> HandlerFor(m.val["type"]), pid |-> pid,
       type |-> m.val["type"], data |-> m.val["data"]]
\* (a worker that goes on to the next line when a handler raises)
HandlerRaiseIgnored == "frames"
\* lines 128 and 132-134: where an exception of the handler takes the
\* worker (it is no JSONDecodeError): out of both loops, to the clean-up
HandlerRaiseOutcome == "close"
\* lines 121-130, one turn of the inner loop
Worker_Frame(s) ==
  /\ WorkerAt(s, "frames")
  /\ LET w == workers[s]
         line == LineOf(w.buf)
         out == LineOutcome(line)
         call == HandlerCall(w.pid, line)
     IN  workers' =
           IF ~HasNL(w.buf) THEN [workers EXCEPT ![s].pc = "loop"]
           ELSE IF out = "skip" THEN [workers EXCEPT ![s].buf = RestOf(w.buf)]
           ELSE IF out = "raise"
             THEN [workers EXCEPT ![s].buf = RestOf(w.buf), ![s].pc = "close"]
           ELSE [workers EXCEPT ![s].buf = RestOf(w.buf),
                                ![s].calls = Append(@, call),
                                ![s].pc = IF call.h = "hraise" THEN HandlerRaiseOutcome
                                          ELSE "frames"]
  /\ UNCHANGED <<node, socks, listeners, cpc, cvar, ret, nsends, nframes, nat_calls, sockcap, upnp_requests, codec, senders>>
\* lines 137-138: close the socket, then test peer_id in peer_connections;
\* without an entry the thread ends
Worker_Close(s) ==
  /\ WorkerAt(s, "close")
  /\ IF DictHas(peer_connections, workers[s].pid)
       THEN /\ socks' = CloseSock(socks, s)
            /\ workers' = [workers EXCEPT ![s].buf = <<>>, ![s].pc = "del"]
       ELSE /\ socks' = Reap(socks, s)
            /\ workers' = [workers EXCEPT ![s] = EndedWorker("done")]
  /\ UNCHANGED <<node, listeners, cpc, cvar, ret, nsends, nframes, nat_calls, sockcap, upnp_requests, codec, senders>>
\* (a clean-up that leaves the entry in the registry)
KeptEntry(d, pid, iterating) == d
\* line 139: del self.peer_connections[peer_id]
CleanedRegistry(d, pid, iterating) == DictDel(d, pid, iterating)
\* line 139: del raises KeyError when the entry went away after line 138;
\* nothing catches it and the thread ends
Worker_Del(s) ==
  /\ WorkerAt(s, "del")
  /\ IF DictHas(peer_connections, workers[s].pid)
       THEN /\ peer_connections' =
                 CleanedRegistry(peer_connections, workers[s].pid, cpc = "stop_iter")
            /\ workers' = [workers EXCEPT ![s] = EndedWorker("done")]
       ELSE /\ peer_connections' = peer_connections
            /\ workers' = [workers EXCEPT ![s] = EndedWorker("keyerror")]
  /\ socks' = Reap(socks, s)
  /\ UNCHANGED <<is_running, socket, message_handlers, upnp_enabled,
                 listeners, cpc, cvar, ret, nsends, nframes, nat_calls, sockcap, upnp_requests, codec, senders>>

(***************************************************************************)
(* The remote peers                                                        *)
(***************************************************************************)
\* what send_message of a remote node puts on the wire, without the '\n'
MsgFrames == {JsonDumps(Message(m[1], m[2])) : m \in PeerMsgs}
\* other lines a remote end may write: a truncated object (not JSON), bytes
\* that are not UTF-8, JSON that is no object, an object without data, the
\* empty line
BadJsonFrames == {<<LB, Member("type", "ping")>>}
BadUtf8Frames == {<<XFF>>}
OddFrames == {<<NUM>>, <<LB, Member("type", "ping"), RB>>, <<>>}
AnyFrames == MsgFrames \cup BadJsonFrames \cup BadUtf8Frames \cup OddFrames
\* the handler registered for the type of frame f, None for a frame that
\* is no message
FrameHandler(f) ==
  IF f \in MsgFrames THEN HandlerFor(JsonLoads(f).val["type"]) ELSE None
\* the remote end of connection s writes frame f and the delimiter
RemoteSend(s, f) ==
  /\ s \in ConnIds
  /\ socks[s].remote = "open"
  /\ workers[s].pc \in {"loop", "recv", "frames"}
  /\ nframes < MaxFrames
  /\ nframes' = nframes + 1
  /\ socks' = [socks EXCEPT ![s].inflight = @ \o f \o <<NL>>,
                            ![s].rsent = Append(@, [f |-> f, h |-> FrameHandler(f)])]
  /\ UNCHANGED <<node, workers, listeners, cpc, cvar, ret, nsends, nat_calls, sockcap, upnp_requests, codec, senders>>
\* the remote end closes the connection (FIN) or resets it (RST)
RemoteClose(s, how) ==
  /\ s \in ConnIds
  /\ socks[s].remote = "open"
  /\ socks' = [socks EXCEPT ![s].remote = how,
                            ![s].inflight = IF how = "reset" THEN <<>> ELSE @]
  /\ UNCHANGED <<node, workers, listeners, cpc, cvar, ret, nsends, nframes, nat_calls, sockcap, upnp_requests, codec, senders>>

(***************************************************************************)
(* The specifications.  Each one lets the application use a part of the    *)
(* node's interface; the threads of the node are the same in all.          *)
(***************************************************************************)
\* the connection workers without the receive path, and the peers going away
Teardown ==
  \/ \E s \in SockIds : Worker_Loop(s)
  \/ \E s \in SockIds : Worker_RecvEnd(s)
  \/ \E s \in SockIds : Worker_Close(s)
  \/ \E s \in SockIds : Worker_Del(s)
  \/ \E s \in SockIds, how \in {"eof", "reset"} : RemoteClose(s, how)
\* ... and the accept loops, without the connections that come in
Running ==
  \/ \E i \in ListenerIds : Listen_Loop(i)
  \/ \E i \in ListenerIds : Listen_Register(i)
  \/ Teardown
Threads ==
  \/ \E i \in ListenerIds, a \in Addrs : Listen_Accept(i, a)
  \/ Running
\* start_node on a network without a UPnP router
StartNode ==
  \/ \E ok \in BOOLEAN : StartNode_Bind(ok)
  \/ \E env \in NoRouterEnvs : StartNode_Running(env)
  \/ StartNode_Spawn
StopNode ==
  \/ StopNode_Begin
  \/ StopNode_CloseListen
  \/ StopNode_Iter
  \/ StopNode_Clear

\* Spec: the life cycle.  The application starts and stops the node while
\* peers connect to it and go away.
Next ==
  \/ StartNode
  \/ StopNode
  \/ \E i \in ListenerIds : Listen_AcceptError(i)
  \/ Threads
Spec == Init /\ [][Next]_vars

\* the node after a start_node that succeeded: listening, the accept loop
\* started (a state Spec reaches)
Started ==
  /\ is_running = TRUE
  /\ socket = 1
  /\ peer_connections = <<>>
  /\ message_handlers = [t \in Types |-> None]
  /\ upnp_enabled = FALSE
  /\ socks = <<ListenSock(TRUE)>>
  /\ workers = <<NoWorker>>
  /\ listeners = <<NewListener>>
  /\ cpc = "idle"
  /\ cvar = CvarInit
  /\ ret = [op |-> "start_node", val |-> "ok"]
  /\ nsends = 0
  /\ nframes = 0
  /\ nat_calls = 1
  /\ upnp_requests = <<>>
  /\ codec = CodecIdle
  /\ senders = NoSenders

\* SpecReg: the registry.  On a node that was only constructed, or that was
\* started, the application connects to peers, sends and broadcasts while
\* peers connect to it and go away.
InitReg == (Constructed \/ Started) /\ sockcap = MaxRegSock
NextReg ==
  \/ \E i \in ListenerIds : Listen_Accept(i, WireAddr)
  \/ \E pid \in CallerIds, ok \in BOOLEAN : ConnectToPeer_Connect(pid, ok)
  \/ ConnectToPeer_Return
  \/ \E pid \in PeerIds, m \in AppMsgs : SendMessage_Call(pid, m[1], m[2])
  \/ SendMessage_IO
  \/ \E m \in AppMsgs : BroadcastMessage_Snapshot(m[1], m[2])
  \/ BroadcastMessage_Loop
  \/ Running
SpecReg == InitReg /\ [][NextReg]_vars

\* the started node after a peer has connected to it: the connection is
\* registered, its worker started, the accept loop back in accept(); tbl is
\* the handler table (with the empty table, a state Spec reaches)
ConnectedWith(tbl) ==
  /\ is_running = TRUE
  /\ socket = 1
  /\ peer_connections = DictPut(<<>>, InboundPeerId(WireAddr), 2)
  /\ message_handlers = tbl
  /\ upnp_enabled = FALSE
  /\ socks = <<ListenSock(TRUE), ConnSock(WireAddr)>>
  /\ workers = SpawnWorker(<<NoWorker, NoWorker>>, 2, InboundPeerId(WireAddr))
  /\ listeners = <<[pc |-> "accept", lsock |-> 1, csock |-> 0]>>
  /\ cpc = "idle"
  /\ cvar = CvarInit
  /\ ret = [op |-> "start_node", val |-> "ok"]
  /\ nsends = 0
  /\ nframes = 0
  /\ nat_calls = 1
  /\ upnp_requests = <<>>
  /\ codec = CodecIdle
  /\ senders = NoSenders

Connected == ConnectedWith([t \in Types |-> None])
\* ... on a node that got a handler for "ping" before it was started
ConnectedLater == ConnectedWith(Registered([t \in Types |-> None], "ping", "h1"))

\* SpecWire: the receive path.  On a started node with a peer connected the
\* application registers handlers while the peer writes frames of every
\* kind and goes away; no further connection is made.
InitWire == (Connected \/ ConnectedLater) /\ sockcap = Len(socks)
Receive ==
  \/ \E s \in SockIds : \E n \in 1..Len(socks[s].inflight) : Worker_Recv(s, n)
  \/ \E s \in SockIds : Worker_Frame(s)
  \/ \E s \in SockIds, f \in AnyFrames : RemoteSend(s, f)
NextWire ==
  \/ \E t \in Types, h \in Handlers : AddMessageHandler(t, h)
  \/ Receive
  \/ Teardown
SpecWire == InitWire /\ [][NextWire]_vars

\* SpecDup: connections under one peer id.  On a started node the
\* application connects to peers, also under a peer id that is registered,
\* and sends, while the peers go away; nobody connects to the node.
InitDup == Started /\ sockcap = Len(socks) + MaxDupConn
NextDup ==
  \/ \E pid \in CallerIds, ok \in BOOLEAN : ConnectToPeer_Connect(pid, ok)
  \/ ConnectToPeer_Return
  \/ \E pid \in CallerIds, m \in AppMsgs : SendMessage_Call(pid, m[1], m[2])
  \/ SendMessage_IO
  \/ \E i \in ListenerIds : Listen_Loop(i)
  \/ Teardown
SpecDup == InitDup /\ [][NextDup]_vars
\* the sockets of SpecDup: the listening one and the connections
DupSockIds == 1..(1 + MaxDupConn)
\* every worker thread gets to run: the test of line 114, the return of a
\* recv at the end of the stream, and the clean-up of lines 137-139
WorkerFairness ==
  \A s \in DupSockIds :
    /\ WF_vars(s \in SockIds /\ Worker_Loop(s))
    /\ WF_vars(s \in SockIds /\ Worker_RecvEnd(s))
    /\ WF_vars(s \in SockIds /\ Worker_Close(s))
    /\ WF_vars(s \in SockIds /\ Worker_Del(s))
\* SpecDeath: the end of connections.  As SpecDup without the sending, and
\* with worker threads that get to run.
NextDeath ==
  \/ \E pid \in CallerIds, ok \in BOOLEAN : ConnectToPeer_Connect(pid, ok)
  \/ ConnectToPeer_Return
  \/ \E i \in ListenerIds : Listen_Loop(i)
  \/ Teardown
SpecDeath == InitDup /\ [][NextDeath]_vars /\ WorkerFairness

\* SpecInb: inbound connections.  Peers connect to a started node from
\* several endpoints and write ping messages, which recv returns as they
\* were written, and close their end; the application registers a handler.
\* The clean-up of the workers is left out.
InitInb == Started /\ sockcap = Len(socks) + MaxInbConn
NextInb ==
  \/ \E i \in ListenerIds, a \in Addrs : Listen_Accept(i, a)
  \/ \E i \in ListenerIds : Listen_Loop(i)
  \/ \E i \in ListenerIds : Listen_Register(i)
  \/ AddMessageHandler("ping", "h1")
  \/ \E s \in SockIds : Worker_Recv(s, Len(socks[s].inflight))
  \/ \E s \in SockIds : Worker_Frame(s)
  \/ \E s \in SockIds : RemoteSend(s, JsonDumps(Message("ping", "1")))
  \/ \E s \in SockIds : Worker_Loop(s)
  \/ \E s \in SockIds : RemoteClose(s, "eof")
  \/ \E s \in SockIds : Worker_RecvEnd(s)
SpecInb == InitInb /\ [][NextInb]_vars

\* SpecChunk: the stream in pieces.  On a started node with a handler for
\* "ping" a connected peer writes messages, lines that are not JSON (one of
\* them a single character of two bytes) and empty lines, and recv returns
\* the stream in pieces of every size.
ChunkFrames == {JsonDumps(Message("ping", "1")), <<U1, U2>>, <<>>} \cup BadJsonFrames
InitChunk == ConnectedLater /\ sockcap = Len(socks)
NextChunk ==
  \/ \E s \in SockIds : \E n \in 1..Len(socks[s].inflight) : Worker_Recv(s, n)
  \/ \E s \in SockIds : Worker_Frame(s)
  \/ \E s \in SockIds, f \in ChunkFrames : RemoteSend(s, f)
  \/ Teardown
SpecChunk == InitChunk /\ [][NextChunk]_vars

\* SpecIdle: the node that is not running.  On a node that was constructed
\* and never started the application connects to peers, which write messages
\* and stay connected; every worker thread gets to run.
InitIdle == Constructed /\ sockcap = MaxDupConn
NextIdle ==
  \/ \E pid \in CallerIds, ok \in BOOLEAN : ConnectToPeer_Connect(pid, ok)
  \/ ConnectToPeer_Return
  \/ \E s \in SockIds : Worker_Loop(s)
  \/ \E s \in SockIds : Worker_Close(s)
  \/ \E s \in SockIds : Worker_Del(s)
  \/ \E s \in SockIds : RemoteSend(s, JsonDumps(Message("ping", "1")))
SpecIdle == InitIdle /\ [][NextIdle]_vars /\ WorkerFairness

\* SpecStop: the stop.  On a started node the application connects to
\* peers, also under a peer id that is registered, and stops the node, while
\* the peers go away; every thread of the node gets to run, and so does the
\* application inside stop_node.
NextStop ==
  \/ \E pid \in CallerIds, ok \in BOOLEAN : ConnectToPeer_Connect(pid, ok)
  \/ ConnectToPeer_Return
  \/ StopNode
  \/ \E i \in ListenerIds : Listen_Loop(i)
  \/ \E i \in ListenerIds : Listen_AcceptError(i)
  \/ Teardown
StopFairness ==
  /\ WorkerFairness
  /\ WF_vars(StopNode)
  /\ WF_vars(Listen_Loop(1))
  /\ WF_vars(Listen_AcceptError(1))
SpecStop == InitDup /\ [][NextStop]_vars /\ StopFairness

\* SpecSend: concurrent senders.  On a started node with a peer connected,
\* two threads of the application call send_message, each once.
InitSend == Connected /\ sockcap = Len(socks)
NextSend ==
  \/ \E k \in SenderIds, pid \in PeerIds, m \in PeerMsgs : Sender_Call(k, pid, m[1], m[2])
  \/ \E k \in SenderIds : Sender_Send(k)
  \/ \E k \in SenderIds : \E n \in 1..Len(senders[k].rest) : Kernel_Take(k, n)
  \/ \E k \in SenderIds : Sender_Return(k)
SpecSend == InitSend /\ [][NextSend]_vars

\* SpecNat: the NAT helper.  The application starts and stops the node on
\* networks of every kind and calls the helper itself; no peer connects.
InitNat == Constructed /\ sockcap = MaxNatSock
NextNat ==
  \/ \E ok \in BOOLEAN : StartNode_Bind(ok)
  \/ \E env \in NatEnvs : StartNode_Running(env)
  \/ StartNode_Spawn
  \/ StopNode
  \/ \E env \in NatEnvs, port \in Ports : NatTraversal_Setup(env, port)
  \/ \E i \in ListenerIds : Listen_Loop(i)
  \/ \E i \in ListenerIds : Listen_AcceptError(i)
SpecNat == InitNat /\ [][NextNat]_vars

(***************************************************************************)
(* Properties of the receive path (SpecWire)                               *)
(***************************************************************************)
\* the worker of connection s is reading and dispatching
WorkerAlive(s) == workers[s].pc \in {"loop", "recv", "frames"}
\* connection s is live: not closed here, not reset by the peer
Live(s) == ~socks[s].closed /\ socks[s].remote # "reset"
\* delimiters that were written to connection s and not yet taken out of the
\* worker's buffer: the frames written and not yet processed
Pending(s) ==
  LET x == workers[s].buf \o socks[s].inflight
  IN  Cardinality({i \in 1..Len(x) : x[i] = NL})
\* the frames written to connection s that the worker has processed
Processed(s) == SubSeq(socks[s].rsent, 1, Len(socks[s].rsent) - Pending(s))
\* the (type, data) of the messages among the frames in fs, in order
MsgsOf(fs) ==
  LET ms == SelectSeq(fs, LAMBDA e : e.f \in MsgFrames)
  IN  [i \in 1..Len(ms) |->
         <<JsonLoads(ms[i].f).val["type"], JsonLoads(ms[i].f).val["data"]>>]
\* the (type, data) of the handler invocations of the worker of s, in order
Dispatched(s) ==
  [i \in 1..Len(workers[s].calls) |-> <<workers[s].calls[i].type, workers[s].calls[i].data>>]
\* every frame written to s so far was a message of send_message whose type
\* had a handler registered when it was written
OnlyHandledMsgs(s) ==
  \A i \in 1..Len(socks[s].rsent) :
    socks[s].rsent[i].f \in MsgFrames /\ socks[s].rsent[i].h # None
\* ... or else a frame that is not valid JSON
OnlyHandledMsgsOrInvalid(s) ==
  \A i \in 1..Len(socks[s].rsent) :
    \/ socks[s].rsent[i].f \in MsgFrames /\ socks[s].rsent[i].h # None
    \/ socks[s].rsent[i].f \in BadJsonFrames \cup BadUtf8Frames
NoHandlerRaised(s) ==
  \A i \in 1..Len(workers[s].calls) : workers[s].calls[i].h # "hraise"

C2_InvalidFrameSkipped ==
  \A s \in ConnIds :
    (/\ is_running /\ workers[s].pc # "none"
     /\ socks[s].remote = "open"
     /\ OnlyHandledMsgsOrInvalid(s) /\ NoHandlerRaised(s))
      => /\ WorkerAlive(s)
         /\ ~socks[s].closed
         /\ DictHas(peer_connections, workers[s].pid)
         /\ Dispatched(s) = MsgsOf(Processed(s))

(***************************************************************************)
(* Properties of the life cycle (Spec)                                     *)
(***************************************************************************)
\* the application is between two calls and the last call, op, ended as val
Returned(op, val) == cpc = "idle" /\ ret = [op |-> op, val |-> val]

\* C3: after stop_node has returned, and before the application calls
\* anything else, the registry is empty and no peer id is registered (so
\* send_message returns false for every peer id).
C3_EmptyAfterStop ==
  Returned("stop_node", "ok")
    => /\ DictUsed(peer_connections) = 0
       /\ \A pid \in PeerIds : ~PeerRegistered(pid)

\* C4: a stop_node called on a node that is Stopped (is_running false, the
\* registry empty) ends without raising and leaves is_running false and the
\* registry empty.
C4_StopIdempotent ==
  [][(cvar.stopped /\ cpc # "idle" /\ cpc' = "idle")
       => /\ ret' = [op |-> "stop_node", val |-> "ok"]
          /\ is_running' = FALSE
          /\ DictUsed(peer_connections') = 0]_vars

\* C9: between two calls of the application, is_running is true exactly when
\* the node has an open socket that is bound and listening.
C9_RunningIffListening ==
  cpc = "idle"
    => (is_running <=> \E s \in SockIds : socks[s].listening /\ ~socks[s].closed)

\* the step of start_node in which bind or listen fails: a socket that is
\* created and does not get to listen
BindFails ==
  /\ cpc = "idle"
  /\ Len(socks') = Len(socks) + 1
  /\ socks'[Len(socks')] = ListenSock(FALSE)
\* C10: when bind or listen fails, start_node ends by raising, is_running is
\* what it was (the node does not become Running), no accept loop is started
\* and setup_port_forwarding is not called.
C10_BindFailure ==
  [][BindFails
       => /\ cpc' = "idle"
          /\ ret' = [op |-> "start_node", val |-> "raised"]
          /\ is_running' = is_running
          /\ listeners' = listeners
          /\ nat_calls' = nat_calls]_vars
\* the first start_node of a node has failed
C10_Witness ==
  /\ Returned("start_node", "raised")
  /\ ~is_running
  /\ listeners = <<>>
  /\ nat_calls = 0
  /\ socket # 0

(***************************************************************************)
(* Properties of the registry operations (SpecReg)                         *)
(***************************************************************************)
\* C5: a send_message for a peer id that is not in the registry returns
\* False at once, touches no socket and leaves the registry as it is.
C5_SendUnknownPeer ==
  [][\A pid \in PeerIds, m \in AppMsgs :
       (SendMessage_Call(pid, m[1], m[2]) /\ ~PeerRegistered(pid))
         => /\ cpc' = "idle"
            /\ ret' = [op |-> "send_message", val |-> "False"]
            /\ socks' = socks
            /\ peer_connections' = peer_connections]_vars
\* send_message has returned False although every registered connection is
\* healthy, and nothing was written anywhere
C5_Witness ==
  /\ Returned("send_message", "False")
  /\ DictUsed(peer_connections) > 0
  /\ \A s \in DictValSet(peer_connections) :
       ~socks[s].closed /\ socks[s].remote = "open"
  /\ \A s \in SockIds : socks[s].sent = <<>>

\* the connection of snapshot entry e is alive and still registered
AliveEntry(e) ==
  /\ DictHas(peer_connections, e.k)
  /\ DictGet(peer_connections, e.k) = e.v
  /\ ~socks[e.v].closed
  /\ socks[e.v].remote = "open"
C7_RegisteredAtReturn ==
  [][(cpc = "conn_ret" /\ cpc' = "idle")
       => /\ ret' = [op |-> "connect_to_peer", val |-> "True"]
          /\ DictHas(peer_connections', cvar.pid)
          /\ DictGet(peer_connections', cvar.pid) = cvar.sock
          /\ workers'[cvar.sock].pid = cvar.pid]_vars
\* C7: a connect_to_peer that succeeds has, before it returns, stored the
\* new connection under the peer id and started a worker for it, and it
\* returns True (the worker may take the entry away before the return).
C7_RegisteredBeforeReturn ==
  [][/\ (cpc = "idle" /\ cpc' = "conn_ret")
          => /\ cvar'.sock = Len(socks')
             /\ Len(socks') = Len(socks) + 1
             /\ socks'[cvar'.sock] = ConnSock(NoAddr)
             /\ DictHas(peer_connections', cvar'.pid)
             /\ DictGet(peer_connections', cvar'.pid) = cvar'.sock
             /\ workers'[cvar'.sock].pc = "loop"
             /\ workers'[cvar'.sock].pid = cvar'.pid
     /\ (cpc = "conn_ret" /\ cpc' = "idle")
          => ret' = [op |-> "connect_to_peer", val |-> "True"]]_vars
\* connect_to_peer has returned True and the entry is there
C7_Witness ==
  /\ Returned("connect_to_peer", "True")
  /\ \E pid \in CallerIds :
       /\ DictHas(peer_connections, pid)
       /\ socks[DictGet(peer_connections, pid)] = ConnSock(NoAddr)
       /\ workers[DictGet(peer_connections, pid)].pid = pid

\* C8: a connect_to_peer whose connect() fails returns False, does not
\* raise, starts no worker, creates no connection and leaves the registry
\* as it was.
C8_ConnectFailure ==
  [][\A pid \in CallerIds :
       ConnectToPeer_Connect(pid, FALSE)
         => /\ cpc' = "idle"
            /\ ret' = [op |-> "connect_to_peer", val |-> "False"]
            /\ peer_connections' = peer_connections
            /\ workers' = workers
            /\ socks' = socks]_vars
\* connect_to_peer has failed for a peer id that is registered
C8_Witness ==
  /\ Returned("connect_to_peer", "False")
  /\ \E pid \in CallerIds : DictHas(peer_connections, pid)

(***************************************************************************)
(* One message through the encoder of send_message and the frame decoder   *)
(* of _handle_peer_messages, its type and data drawn from Python values.  *)
(***************************************************************************)
\* the strings of at most MaxStrLen symbols, line feeds among them
PyStrs == {PyStr(cs) : cs \in UNION {[1..k -> {"a", LF}] : k \in 0..MaxStrLen}}
PyOne == <<"int", "1">>
Items == {PyStr(<<LF>>), PyOne}
PySeqs ==
  {<<kind, xs>> : kind \in {"list", "tuple"},
                  xs \in {<<>>} \cup {<<x>> : x \in Items}}
PyDicts ==
  {<<"dict", <<>> >>} \cup
  {<<"dict", << <<k, v>> >> >> :
     k \in {PyStr(<<"k">>), PyStr(<<LF>>), PyOne},
     v \in Items \cup {<<"list", <<PyOne>> >>, <<"tuple", <<PyOne>> >>}}
\* message_type: str, non-empty; data: what json.dumps accepts
CodecTypes == PyStrs \ {PyStr(<<>>)}
CodecDatas == PyStrs \cup {PyOne} \cup PySeqs \cup PyDicts

others == <<is_running, socket, peer_connections, message_handlers, upnp_enabled,
            socks, workers, listeners, cpc, cvar, ret, nsends, nframes, nat_calls, sockcap, upnp_requests, senders>>

\* lines 69-77: the message is built, encoded and handed to the socket
Codec_Encode(t, d) ==
  /\ codec.pc = "idle"
  /\ codec' = [codec EXCEPT !.pc = "sent", !.msg = <<t, d>>,
                            !.frame = EncodeMessage(t, d),
                            !.wire = EncodeMessage(t, d)]
  /\ UNCHANGED others

\* lines 116-120: recv returns the next n bytes, which join the buffer
Codec_Recv(n) ==
  /\ codec.pc = "sent"
  /\ n \in 1..Len(codec.wire)
  /\ codec' = [codec EXCEPT !.buf = @ \o SubSeq(codec.wire, 1, n),
                            !.wire = SubSeq(@, n + 1, Len(@))]
  /\ UNCHANGED others

\* lines 121-130: one line is split off the buffer and decoded; a line that
\* is not JSON is reported and skipped; a text that is not a dict, or has
\* no data, ends the worker (lines 132-134)
Codec_Frame ==
  /\ codec.pc = "sent"
  /\ HasNL(codec.buf)
  /\ LET line == LineOf(codec.buf)
         r == Loads(line)
     IN  codec' =
           IF line = <<>> THEN [codec EXCEPT !.buf = RestOf(@)]
           ELSE IF ~r.ok THEN [codec EXCEPT !.buf = RestOf(@), !.bad = @ + 1]
           ELSE IF r.v[1] # "dict" \/ ~PyHas(r.v, PyStr(<<"data">>))
             THEN [codec EXCEPT !.buf = RestOf(@), !.pc = "ended"]
           ELSE [codec EXCEPT !.buf = RestOf(@),
                   !.out = Append(@,
                     [type |-> IF PyHas(r.v, PyStr(<<"type">>))
                                 THEN PyGet(r.v, PyStr(<<"type">>)) ELSE None,
                      data |-> PyGet(r.v, PyStr(<<"data">>))])]
  /\ UNCHANGED others

InitCodec == Constructed /\ sockcap = 0
NextCodec ==
  \/ \E t \in CodecTypes, d \in CodecDatas : Codec_Encode(t, d)
  \/ \E n \in 1..Len(codec.wire) : Codec_Recv(n)
  \/ Codec_Frame
SpecCodec == InitCodec /\ [][NextCodec]_vars

(***************************************************************************)
(* Properties of the NAT helper (SpecNat)                                  *)
(***************************************************************************)
\* C11: whatever the NAT helper meets during start_node, the step of
\* start_node that calls it goes on to the spawning of the accept loop with
\* nothing raised, and start_node then returns normally with is_running
\* true and one more accept loop started.
C11_NatFailureContained ==
  [][/\ (cpc = "start_running" /\ cpc' # cpc)
          => /\ cpc' = "start_spawn"
             /\ ret' = ret
             /\ is_running'
     /\ (cpc = "start_spawn" /\ cpc' # cpc)
          => /\ cpc' = "idle"
             /\ ret' = [op |-> "start_node", val |-> "ok"]
             /\ is_running'
             /\ listeners' = Append(listeners, NewListener)]_vars
\* start_node has returned normally, the node is Running with its accept
\* loop, and the one call of the helper sent a request that the router
\* refused
C11_Witness ==
  /\ Returned("start_node", "ok")
  /\ is_running
  /\ Len(listeners) = 1
  /\ nat_calls = 1
  /\ upnp_requests = <<PortMapping(1, Port)>>
  /\ ~upnp_enabled

\* C17: a call of setup_port_forwarding(port) returns (it never raises); it
\* returns True exactly when the import and the discovery succeeded, a
\* router was found and the first router accepted the mapping; it sends at
\* most one request, to the first router, for TCP with external and
\* internal port equal to port.
C17_PortForwardingResult ==
  [][\A env \in NatEnvs, port \in Ports :
       NatTraversal_Setup(env, port)
         => LET found == env.lib /\ env.discover /\ env.devices >= 1
                mapped == found /\ env.local_ip /\ 1 \in env.accepting
                new == SubSeq(upnp_requests', Len(upnp_requests) + 1, Len(upnp_requests'))
            IN  /\ ret' = [op |-> "setup_port_forwarding",
                           val |-> IF mapped THEN "True" ELSE "False"]
                /\ upnp_enabled' = (upnp_enabled \/ mapped)
                /\ SubSeq(upnp_requests', 1, Len(upnp_requests)) = upnp_requests
                /\ Len(new) <= 1
                /\ mapped => Len(new) = 1
                /\ ~found => Len(new) = 0
                /\ \A i \in 1..Len(new) :
                     new[i] = [dev |-> 1, NewExternalPort |-> port,
                               NewProtocol |-> "TCP", NewInternalPort |-> port]]_vars
\* a call of the helper for the other port has returned True after one
\* request, to the first router
C17_Witness ==
  /\ Returned("setup_port_forwarding", "True")
  /\ upnp_enabled
  /\ upnp_requests = <<PortMapping(1, 8000)>>

(***************************************************************************)
(* Properties of sending (SpecReg)                                         *)
(***************************************************************************)
\* C12: the step of send_message that writes leaves the registry as it is,
\* whether the write succeeds or fails, and so does the step that looks the
\* peer up; a direct send_message whose write fails (the socket is closed,
\* the peer has reset the connection, or the entry has gone meanwhile)
\* returns False rather than raising.
C12_SendFailureKeepsEntry ==
  [][/\ (cpc = "send_io" /\ cpc' # "send_io")
          => /\ peer_connections' = peer_connections
             /\ (/\ ~cvar.inb
                 /\ \/ ~DictHas(peer_connections, cvar.pid)
                    \/ SendRaises(DictGet(peer_connections, cvar.pid)))
                  => /\ cpc' = "idle"
                     /\ ret' = [op |-> "send_message", val |-> "False"]
     /\ (nsends' # nsends) => peer_connections' = peer_connections]_vars
\* send_message has returned False after a write that failed, and the
\* connection it tried to write to is still registered
C12_Witness ==
  /\ Returned("send_message", "False")
  /\ \E s \in ConnIds :
       /\ socks[s].failed = 1
       /\ s \in DictValSet(peer_connections)

(***************************************************************************)
(* Properties of the handler table (SpecWire)                              *)
(***************************************************************************)
\* C13: the handler table maps a type to one handler; add_message_handler
\* puts its handler in the place of the one the type had and leaves the
\* other types alone; a step of a worker dispatches at most one frame, to
\* one handler, and that handler is the one the table holds for the type
\* of the frame at that moment, that is the one registered last.
C13_LastHandlerWins ==
  [][/\ \A t \in Types, h \in Handlers :
          AddMessageHandler(t, h)
            => /\ message_handlers'[t] = h
               /\ \A u \in Types \ {t} : message_handlers'[u] = message_handlers[u]
     /\ \A s \in SockIds :
          Len(workers'[s].calls) > Len(workers[s].calls)
            => LET call == workers'[s].calls[Len(workers'[s].calls)]
               IN  /\ workers'[s].calls = Append(workers[s].calls, call)
                   /\ call.type = JsonLoads(LineOf(workers[s].buf)).val["type"]
                   /\ call.h = message_handlers[call.type]
                   /\ call.h \in Handlers]_vars
\* a frame was written while its type had the handler that raises, the
\* handler was replaced, and the frame was dispatched to the new one alone
C13_Witness ==
  \E s \in ConnIds :
    /\ WorkerAlive(s)
    /\ Len(socks[s].rsent) = 1
    /\ socks[s].rsent[1].h = "hraise"
    /\ Len(workers[s].calls) = 1
    /\ workers[s].calls[1].h = "h1"

\* C14: when a worker takes from its buffer a line that decodes to a
\* message whose type has no handler in the table, it takes the line out
\* of the buffer and does nothing else: no handler is invoked, the worker
\* stays in its frame loop, and sockets and registry are as they were.
C14_UnhandledDropped ==
  [][\A s \in SockIds :
       (/\ WorkerAt(s, "frames")
        /\ HasNL(workers[s].buf)
        /\ JsonLoads(LineOf(workers[s].buf)).kind = "object"
        /\ HandlerFor(JsonLoads(LineOf(workers[s].buf)).val["type"]) = None
        /\ workers'[s] # workers[s])
         => /\ workers'[s] = [workers[s] EXCEPT !.buf = RestOf(workers[s].buf)]
            /\ socks' = socks
            /\ peer_connections' = peer_connections]_vars
\* a pong message came in while pong had no handler and a ping message
\* after it: the ping alone was dispatched, on a connection still open and
\* registered
C14_Witness ==
  \E s \in ConnIds :
    /\ WorkerAlive(s) /\ Live(s)
    /\ DictHas(peer_connections, workers[s].pid)
    /\ message_handlers["pong"] = None
    /\ Len(socks[s].rsent) = 2
    /\ socks[s].rsent[1].f = JsonDumps(Message("pong", "2"))
    /\ socks[s].rsent[2].f = JsonDumps(Message("ping", "1"))
    /\ Pending(s) = 0
    /\ Dispatched(s) = <<(<<"ping", "1">>)>>

(***************************************************************************)
(* Properties of connections under one peer id (SpecDup, SpecDeath)        *)
(***************************************************************************)
\* the registry maps some peer id to socket s
EntryOf(s) == s \in DictValSet(peer_connections)
WorkerEnded(s) == workers[s].pc \in {"done", "keyerror"}

\* C15: once the peer of a connection has closed or reset it, the worker of
\* the connection eventually has ended and the registry has no entry for the
\* connection; and when a worker ends its clean-up the registry has no entry
\* for its peer id (so that send_message to that peer returns False).
C15_DeadConnectionRemoved ==
  /\ \A s \in DupSockIds :
       (s \in ConnIds /\ socks[s].remote \in {"eof", "reset"})
         ~> (s \in ConnIds /\ WorkerEnded(s) /\ ~EntryOf(s))
  /\ [][\A s \in SockIds :
          (workers[s].pc \in {"close", "del"} /\ workers'[s].pc \in {"done", "keyerror"})
            => ~DictHas(peer_connections', workers[s].pid)]_vars
\* a connection that was registered has been closed by its peer and cleaned
\* up by its worker: the socket is gone and the registry is empty
C15_Witness ==
  /\ \E s \in ConnIds : workers[s].pc = "done" /\ socks[s] = DeadSock
  /\ DictUsed(peer_connections) = 0
  /\ is_running

\* C16: the clean-up of a worker (lines 137-139) leaves the node Running
\* and touches nothing of any other connection: every registry entry that
\* holds another socket stays, and the sockets and workers of the other
\* connections are as they were.
C16_OnlyOwnConnection ==
  [][\A s \in SockIds :
       (workers[s].pc \in {"close", "del"} /\ workers'[s] # workers[s])
         => /\ is_running' = is_running
            /\ \A i \in LiveIdx(peer_connections) :
                 peer_connections[i].v # s
                   => /\ DictHas(peer_connections', peer_connections[i].k)
                      /\ DictGet(peer_connections', peer_connections[i].k)
                           = peer_connections[i].v
            /\ \A o \in SockIds \ {s} :
                 socks'[o] = socks[o] /\ workers'[o] = workers[o]]_vars

\* C20: the step of connect_to_peer that registers a connection under a
\* peer id that is registered puts the new connection in the place of the
\* old one (the registry has the same keys, and the old socket is in no
\* entry), and leaves the old socket and its worker as they were; a
\* send_message writes to the connection the registry holds for the peer
\* id, and to no other.
C20_ReplaceKeepsOldOpen ==
  [][/\ \A pid \in CallerIds :
          (ConnectToPeer_Connect(pid, TRUE) /\ PeerRegistered(pid))
            => LET old == DictGet(peer_connections, pid)
                   new == Len(socks) + 1
               IN  /\ DictGet(peer_connections', pid) = new
                   /\ DictKeys(peer_connections') = DictKeys(peer_connections)
                   /\ old \notin DictValSet(peer_connections')
                   /\ socks'[old] = socks[old]
                   /\ workers'[old] = workers[old]
                   /\ workers'[new].pc = "loop" /\ workers'[new].pid = pid
     /\ (cpc = "send_io" /\ cpc' # "send_io")
          => \A s \in SockIds :
               socks'[s].sent # socks[s].sent
                 => /\ DictHas(peer_connections, cvar.pid)
                    /\ s = DictGet(peer_connections, cvar.pid)]_vars
\* two connections were made under one peer id: the registry holds the
\* second, a message sent to the peer id was written to the second, and the
\* first is open with its worker blocked in recv
C20_Witness ==
  /\ Returned("send_message", "True")
  /\ Len(socks) = 3
  /\ DictUsed(peer_connections) = 1
  /\ DictValSet(peer_connections) = {3}
  /\ socks[3].sent = <<Encode("ping", "1")>>
  /\ socks[2].sent = <<>>
  /\ ~socks[2].closed /\ socks[2].remote = "open"
  /\ workers[2].pc = "recv"
  /\ workers[2].pid = workers[3].pid

(***************************************************************************)
(* Properties of inbound connections (SpecInb)                             *)
(***************************************************************************)
\* C19: the step of the accept loop that registers an accepted connection
\* stores it in the registry under "<ip>:<port>" of its remote endpoint and
\* starts a worker for it, with that identifier, leaving the other workers
\* alone; and every handler invocation made for a frame of an inbound
\* connection gets "<ip>:<port>" of that connection as its peer id.
C19_InboundPeerId ==
  [][/\ \A i \in ListenerIds :
          (listeners[i].pc = "register" /\ listeners'[i].pc # "register")
            => LET c == listeners[i].csock
                   id == socks[c].addr[1] \o ":" \o ToString(socks[c].addr[2])
               IN  /\ DictHas(peer_connections', id)
                   /\ DictGet(peer_connections', id) = c
                   /\ workers[c].pc = "none"
                   /\ workers'[c] = [pc |-> "loop", pid |-> id, buf |-> <<>>, calls |-> <<>>]
                   /\ \A o \in SockIds \ {c} : workers'[o] = workers[o]
     /\ \A s \in ConnIds :
          Len(workers'[s].calls) > Len(workers[s].calls)
            => workers'[s].calls[Len(workers'[s].calls)].pid
                 = socks[s].addr[1] \o ":" \o ToString(socks[s].addr[2])]_vars
\* the connection from ("h", 2) is registered as "h:2" and a ping that came
\* in on it was handed to the handler with "h:2"
C19_Witness ==
  \E s \in ConnIds :
    /\ socks[s].addr = <<"h", 2>>
    /\ DictHas(peer_connections, "h:2")
    /\ DictGet(peer_connections, "h:2") = s
    /\ workers[s].calls = <<[h |-> "h1", pid |-> "h:2", type |-> "ping", data |-> "1"]>>

(***************************************************************************)
(* The round trip of a message through encoder and frame decoder           *)
(***************************************************************************)
RECURSIVE JsonNative(_)
\* built from strings, numbers, lists and dicts with string keys
JsonNative(v) ==
  CASE v[1] \in {"str", "int", "float"} -> TRUE
    [] v[1] = "list" -> \A i \in 1..Len(v[2]) : JsonNative(v[2][i])
    [] v[1] = "tuple" -> FALSE
    [] v[1] = "dict" ->
         \A i \in 1..Len(v[2]) : v[2][i][1][1] = "str" /\ JsonNative(v[2][i][2])
\* everything the encoder produced has gone through the frame decoder
CodecDone == codec.pc # "idle" /\ codec.wire = <<>> /\ ~HasNL(codec.buf)
DelimiterLast ==
  /\ codec.frame[Len(codec.frame)] = NL
  /\ \A i \in 1..(Len(codec.frame) - 1) : codec.frame[i] # NL
Decoded ==
  /\ codec.pc = "sent"
  /\ codec.buf = <<>>
  /\ codec.bad = 0
  /\ codec.out = <<[type |-> codec.msg[1], data |-> codec.msg[2]]>>

\* C18: for every type and every data value built from strings, numbers,
\* lists and dicts with string keys (strings with line feeds included), the
\* encoded frame has the delimiter as its last byte and nowhere else, and
\* once the frame decoder has received all of it, it has produced exactly
\* one message, whose type and data equal the original's.
C18_RoundTripJsonValues ==
  /\ codec.pc # "idle" => DelimiterLast
  /\ (CodecDone /\ JsonNative(codec.msg[2])) => Decoded
\* the same for every data value json.dumps accepts
C18_RoundTrip ==
  /\ codec.pc # "idle" => DelimiterLast
  /\ CodecDone => Decoded
\* a type and a data value with line feeds in them have made the round trip
C18_Witness ==
  /\ CodecDone
  /\ Decoded
  /\ codec.msg = <<PyStr(<<"a", LF>>),
                   <<"dict", << <<PyStr(<<LF>>), PyStr(<<LF>>)>> >> >> >>
  /\ Len(codec.frame) > 1

(***************************************************************************)
(* Properties of the registry's entries and the sockets they hold          *)
(***************************************************************************)
\* C21: in every reachable state every entry of the registry holds a socket
\* that has not been closed and whose worker has not got to its clean-up's
\* end (it is reading, or has left the loop and not yet closed the socket):
\* an entry is removed before its socket is closed, so that send_message
\* never looks up a socket that is closed.
C21_RegisteredIsOpen ==
  \A i \in LiveIdx(peer_connections) :
    LET s == peer_connections[i].v
    IN  ~socks[s].closed /\ workers[s].pc \in {"loop", "recv", "frames", "close"}

(***************************************************************************)
(* Properties of frames that are JSON and no message (SpecWire)            *)
(***************************************************************************)
\* every frame written to s so far was a message of send_message whose type
\* had a handler, or a JSON text that is no message, or the empty line
OnlyHandledMsgsOrOdd(s) ==
  \A i \in 1..Len(socks[s].rsent) :
    \/ socks[s].rsent[i].f \in MsgFrames /\ socks[s].rsent[i].h # None
    \/ socks[s].rsent[i].f \in OddFrames
\* C22: on a connection that is open at both ends, whose frames so far were
\* messages with a handler or JSON texts that are no message (a number; an
\* object with a type and no data), and on which no handler raised, the
\* worker is still running, the connection is open and registered, and
\* exactly the messages among the frames processed were dispatched.
C22_NonMessageSkipped ==
  \A s \in ConnIds :
    (/\ is_running /\ workers[s].pc # "none"
     /\ socks[s].remote = "open"
     /\ OnlyHandledMsgsOrOdd(s) /\ NoHandlerRaised(s))
      => /\ WorkerAlive(s)
         /\ ~socks[s].closed
         /\ DictHas(peer_connections, workers[s].pid)
         /\ Dispatched(s) = MsgsOf(Processed(s))

(***************************************************************************)
(* Properties of concurrent send_message calls (SpecSend)                  *)
(***************************************************************************)
\* the bytes of thread k's data that the kernel has taken
Taken(k) == SubSeq(senders[k].data, 1, Len(senders[k].data) - Len(senders[k].rest))
\* the threads whose send on socket s has put bytes on the wire
Writers(s) == {k \in SenderIds : senders[k].sock = s /\ Taken(k) # <<>>}
RECURSIVE TakenIn(_)
\* what the threads of the sequence o have put on the wire, one after another
TakenIn(o) == IF o = <<>> THEN <<>> ELSE Taken(Head(o)) \o TakenIn(Tail(o))
\* C23: the bytes on a connection are the frames of the send_message calls
\* one after another, each whole (only the one written last may still be
\* under way), and a call that returned True has put its whole frame there.
C23_WritesSerialized ==
  /\ \A s \in ConnIds :
       \E o \in UNION {[1..n -> Writers(s)] : n \in 0..Cardinality(Writers(s))} :
         /\ Len(o) = Cardinality(Writers(s))
         /\ \A i, j \in 1..Len(o) : i # j => o[i] # o[j]
         /\ socks[s].wire = TakenIn(o)
         /\ \A i \in 1..(Len(o) - 1) : senders[o[i]].rest = <<>>
  /\ \A k \in SenderIds :
       (senders[k].pc = "done" /\ senders[k].ret = "True") => senders[k].rest = <<>>

(***************************************************************************)
(* Properties of the registry under concurrent access (Spec)               *)
(***************************************************************************)
\* C24: no other thread's put or remove takes effect inside a registry
\* operation.  Between stop_node's first look at the registry (the iterator
\* of line 40) and its clear (line 42) the registry changes by nothing but
\* that clear; stop_node does not raise; what it clears are entries whose
\* sockets it has closed; and an entry a worker found at line 138 is there
\* at line 139.
C24_RegistryAtomic ==
  [][/\ (cpc \in {"stop_iter", "stop_clear"} /\ peer_connections' # peer_connections)
          => (cpc = "stop_clear" /\ cpc' = "idle")
     /\ (cpc = "stop_clear" /\ cpc' = "idle")
          => \A i \in LiveIdx(peer_connections) : socks[peer_connections[i].v].closed
     /\ ret'.op = "stop_node" => ret'.val = "ok"
     /\ \A s \in SockIds : workers'[s].pc # "keyerror"]_vars

(***************************************************************************)
(* Properties of the stop (SpecStop)                                       *)
(***************************************************************************)
\* C25: the accept loop and every connection worker that exist when
\* stop_node is called eventually end.
C25_StopEndsThreads ==
  /\ (cpc = "stop_close" /\ listeners[1].pc # "done") ~> (listeners[1].pc = "done")
  /\ \A s \in DupSockIds :
       (cpc = "stop_close" /\ s \in ConnIds /\ ~WorkerEnded(s))
         ~> (s \in ConnIds /\ WorkerEnded(s))

(***************************************************************************)
(* Properties of the frame extraction (SpecChunk)                          *)
(***************************************************************************)
RECURSIVE StreamOf(_)
\* the bytes of the frames fs as they were written, each with its delimiter
StreamOf(fs) == IF fs = <<>> THEN <<>> ELSE Head(fs).f \o <<NL>> \o StreamOf(Tail(fs))
\* C26: however recv cuts the stream, on a connection that is open at both
\* ends the worker keeps reading; what it has not consumed (its buffer and
\* the bytes not yet received) is the stream from the end of the last
\* segment it took on, so that every segment is taken once, in order,
\* whether it decodes or not; the messages among the segments taken were
\* dispatched, the empty ones and the others skipped; and after each pass
\* the buffer holds no delimiter.
C26_ChunkingIndependent ==
  \A s \in ConnIds :
    (is_running /\ workers[s].pc # "none" /\ socks[s].remote = "open")
      => /\ WorkerAlive(s)
         /\ workers[s].buf \o socks[s].inflight
              = StreamOf(SubSeq(socks[s].rsent, Len(Processed(s)) + 1, Len(socks[s].rsent)))
         /\ Dispatched(s) = MsgsOf(Processed(s))
         /\ workers[s].pc \in {"loop", "recv"} => ~HasNL(workers[s].buf)

(***************************************************************************)
(* Properties of handlers that raise (SpecWire)                            *)
(***************************************************************************)
\* a handler invoked by the worker of s has raised
HandlerRaised(s) == \E i \in 1..Len(workers[s].calls) : workers[s].calls[i].h = "hraise"
C28_OneAcceptLoop ==
  Cardinality({i \in ListenerIds : listeners[i].pc # "done"}) <= 1

C30_EnabledMonotone ==
  /\ [](nat_calls = 0 => ~upnp_enabled)
  /\ [][/\ upnp_enabled => upnp_enabled'
        /\ (~upnp_enabled /\ upnp_enabled')
             => \/ ret' = [op |-> "setup_port_forwarding", val |-> "True"]
                \/ /\ cpc = "start_running"
                   /\ upnp_requests' = Append(upnp_requests, PortMapping(1, Port))
        /\ (cpc = "idle" /\ ret' # ret /\ ret'.op = "setup_port_forwarding")
             => upnp_enabled' = (upnp_enabled \/ ret'.val = "True")]_vars
\* after a successful mapping a later call has failed and returned False,
\* and the flag is still true
C30_Witness ==
  /\ upnp_enabled
  /\ Returned("setup_port_forwarding", "False")
  /\ nat_calls = 2
  /\ Len(upnp_requests) = 2
====
